---- MODULE Spec2Model ----
(***************************************************************************)
(* PyInstaller/depend/bytecode.py: the regex-driven scanner of code        *)
(* objects for calls on constant arguments, and the memoized walk over     *)
(* nested code objects.                                                    *)
(*                                                                         *)
(* A code object is a handle in Units with the fields co_code (bytes),     *)
(* co_names (names) and co_consts (constants, some of which are code       *)
(* objects), and the fields that say where and how it was defined.  Byte   *)
(* sequences are sequences of naturals below 256;                          *)
(* positions are 1-based, so Python's offset k is position k + 1.          *)
(***************************************************************************)
EXTENDS Integers, Sequences, FiniteSets, TLC

(***************************************************************************)
(* dis.opmap, as the backtick substitution of bytecode_regex resolves it   *)
(* (CPython 3.8, one of the versions that has every opcode the patterns    *)
(* name).                                                                  *)
(***************************************************************************)
EXTENDED_ARG == 144
LOAD_NAME == 101
LOAD_GLOBAL == 116
LOAD_FAST == 124
LOAD_ATTR == 106
LOAD_METHOD == 160
LOAD_CONST == 100
CALL_FUNCTION == 131
CALL_METHOD == 161

RootOps == {LOAD_NAME, LOAD_GLOBAL, LOAD_FAST}
AttrOps == {LOAD_METHOD, LOAD_ATTR}
ConstOps == {LOAD_CONST}
CallOps == {CALL_FUNCTION, CALL_METHOD}

(***************************************************************************)
(* Bounds of the model.                                                    *)
(***************************************************************************)
NUnits == 4
MaxEdges == 3
MaxScans == 2
MaxPairs == 5
MaxInstr == 6
MaxBytes == 8
NDists == 3
MaxDepends == 4
MaxMissing == 1
MaxExcluded == 1

Units == 1..NUnits

\* The units that the repeated walks link: all but the last, which is a
\* code object without nested code objects that nothing holds.
WalkUnits == Units \ {NUnits}

----------------------------------------------------------------------------
(***************************************************************************)
(* extended_arguments, _extended_arg_bytecode, parse_loads                 *)
(***************************************************************************)

\* extended_args[1::2]: every second byte, starting with the second.
OperandBytes(bs) == [i \in 1..(Len(bs) \div 2) |-> bs[2 * i]]

\* Mutant: the bytes are read little-endian.
RECURSIVE FromBytesBig_Little(_)
FromBytesBig_Little(s) ==
    IF s = <<>> THEN 0
    ELSE s[1] + 256 * FromBytesBig_Little(SubSeq(s, 2, Len(s)))

\* int.from_bytes(s, "big")
RECURSIVE FromBytesBig(_)
FromBytesBig(s) ==
    IF s = <<>> THEN 0
    ELSE FromBytesBig(SubSeq(s, 1, Len(s) - 1)) * 256 + s[Len(s)]

extended_arguments(extended_args) == FromBytesBig(OperandBytes(extended_args))

\* Mutant: the pattern has no (?:`EXTENDED_ARG`.)* prefix.
ExtRun_None(raw, p) == 0

\* (?:`EXTENDED_ARG`.)* taken greedily at position p: the number of pairs.
RECURSIVE ExtRun(_, _)
ExtRun(raw, p) ==
    IF p + 1 <= Len(raw) /\ raw[p] = EXTENDED_ARG
    THEN 1 + ExtRun(raw, p + 2)
    ELSE 0

\* The rest of _extended_arg_bytecode after j EXTENDED_ARG pairs:
\* [^`EXTENDED_ARG`]. ; on failure the star gives one pair back.  The value
\* is the position after the match, 0 for no match at p.
RECURSIVE ChainEndFrom(_, _, _)
ChainEndFrom(raw, p, j) ==
    IF p + 2 * j + 1 <= Len(raw) /\ raw[p + 2 * j] # EXTENDED_ARG
    THEN p + 2 * j + 2
    ELSE IF j = 0 THEN 0 ELSE ChainEndFrom(raw, p, j - 1)

ChainEnd(raw, p) == ChainEndFrom(raw, p, ExtRun(raw, p))

\* _extended_arg_bytecode.findall(raw) from position p on: leftmost match,
\* then on from its end; a position with no match is skipped.
RECURSIVE FindAllChains(_, _)
FindAllChains(raw, p) ==
    IF p > Len(raw) THEN <<>>
    ELSE LET e == ChainEnd(raw, p)
         IN  IF e = 0 THEN FindAllChains(raw, p + 1)
             ELSE <<SubSeq(raw, p, e - 1)>> \o FindAllChains(raw, e)

parse_loads(raw) ==
    LET found == FindAllChains(raw, 1)
    IN  [i \in 1..Len(found) |-> extended_arguments(found[i])]

----------------------------------------------------------------------------
(***************************************************************************)
(* _call_function_bytecode and function_calls                              *)
(***************************************************************************)

\* (?:`EXTENDED_ARG`.)* (?:op1|op2|...). at position p: the position after
\* it, 0 for no match.  Giving EXTENDED_ARG pairs back cannot help: the
\* opcode after fewer pairs is EXTENDED_ARG, which is in no opcode set.
ItemEnd(code, p, ops) ==
    LET q == p + 2 * ExtRun(code, p)
    IN  IF q + 1 <= Len(code) /\ code[q] \in ops THEN q + 2 ELSE 0

\* ((?: item )*) at position p, greedy: the position after the last item.
RECURSIVE StarEnd(_, _, _)
StarEnd(code, p, ops) ==
    LET e == ItemEnd(code, p, ops)
    IN  IF e = 0 THEN p ELSE StarEnd(code, e, ops)

\* One match of _call_function_bytecode at position p, with its four
\* groups, or ok = FALSE.  The groups' opcode sets are disjoint and every
\* item is a whole pair from p on, so a shorter star never makes the
\* invoke group match where the longest does not.
MatchCallAt(code, p) ==
    LET e1 == ItemEnd(code, p, RootOps)
        e2 == StarEnd(code, e1, AttrOps)
        e3 == StarEnd(code, e2, ConstOps)
        e4 == ItemEnd(code, e3, CallOps)
    IN  IF e1 = 0 \/ e4 = 0
        THEN [ok |-> FALSE]
        ELSE [ok |-> TRUE, start |-> p, end |-> e4,
              function_root |-> SubSeq(code, p, e1 - 1),
              methods |-> SubSeq(code, e1, e2 - 1),
              args |-> SubSeq(code, e2, e3 - 1),
              arg_count |-> SubSeq(code, e3, e4 - 1)]

\* _call_function_bytecode.finditer(code.co_code) from position p on.
RECURSIVE FindCalls(_, _)
FindCalls(code, p) ==
    IF p > Len(code) THEN <<>>
    ELSE LET m == MatchCallAt(code, p)
         IN  IF m.ok THEN <<m>> \o FindCalls(code, m.end)
             ELSE FindCalls(code, p + 1)

\* tuple[i] for the decoded indices: IndexError when one is out of range.
InRange(idx, table) == \A k \in 1..Len(idx) : idx[k] + 1 <= Len(table)
Lookup(idx, table) == [k \in 1..Len(idx) |-> table[idx[k] + 1]]

\* Mutant: the parts are joined with nothing between them.
RECURSIVE Join_NoDot(_)
Join_NoDot(parts) ==
    IF Len(parts) = 1 THEN parts[1]
    ELSE Join_NoDot(SubSeq(parts, 1, Len(parts) - 1)) \o parts[Len(parts)]

\* ".".join(parts)
RECURSIVE Join(_)
Join(parts) ==
    IF Len(parts) = 1 THEN parts[1]
    ELSE Join(SubSeq(parts, 1, Len(parts) - 1)) \o "." \o parts[Len(parts)]

\* Mutant: the comparison of arg_count with len(args) is left out.
KeepCall_Always(arg_count, args) == TRUE

\* Whether the match is appended to out: not when arg_count != len(args).
KeepCall(arg_count, args) == arg_count = Len(args)

\* The body of the for loop of function_calls on one match: err when an
\* index lookup raises, else the fact and whether it is kept.
CallOf(m, co_names, co_consts) ==
    LET root == <<extended_arguments(m.function_root)>>
        meths == parse_loads(m.methods)
        argi == parse_loads(m.args)
        argc == extended_arguments(m.arg_count)
    IN  IF ~InRange(root, co_names) \/ ~InRange(meths, co_names)
           \/ ~InRange(argi, co_consts)
        THEN [err |-> TRUE]
        ELSE [err |-> FALSE,
              keep |-> KeepCall(argc, Lookup(argi, co_consts)),
              fact |-> [function |-> Join(Lookup(root, co_names)
                                          \o Lookup(meths, co_names)),
                        args |-> Lookup(argi, co_consts)]]

\* The for loop over the matches ms from the k-th on, out being the facts
\* so far: the first IndexError ends the whole call.
RECURSIVE CallsLoop(_, _, _, _, _)
CallsLoop(ms, k, out, co_names, co_consts) ==
    IF k > Len(ms) THEN [err |-> FALSE, out |-> out]
    ELSE LET c == CallOf(ms[k], co_names, co_consts)
         IN  IF c.err THEN [err |-> TRUE, out |-> <<>>]
             ELSE CallsLoop(ms, k + 1,
                            IF c.keep THEN Append(out, c.fact) ELSE out,
                            co_names, co_consts)

\* The matches are bound once, as values, before the loop runs over them.
function_calls(co_code, co_names, co_consts) ==
    CHOOSE r \in {CallsLoop(ms, 1, <<>>, co_names, co_consts) :
                    ms \in {FindCalls(co_code, 1)}} : TRUE

----------------------------------------------------------------------------
(***************************************************************************)
(* The code objects handed to search_recursively.                          *)
(*                                                                         *)
(* children[u] is the set of code objects among u's constants; co_consts   *)
(* lists None first and the nested code objects after it.  Every unit      *)
(* holds the code of foo(None), except the unit `bad` (0 for none), whose  *)
(* root load names an index that co_names does not have.                   *)
(*                                                                         *)
(* The unit `synthetic` (0 for none) is no code object but an object of a  *)
(* class that reports CodeType as its __class__, so that isinstance holds  *)
(* for it, and that carries the same fields: it is hashed and compared by  *)
(* identity, and its co_consts can be set after it was made.  `met` lists  *)
(* the units in the order line 156 tested them in the current call.        *)
(***************************************************************************)
VARIABLES children, bad, alt, synthetic, met, pc, top, stack, heap, cur,
          searched, returned, scans, steps, raw, bpc, chains, loads, value, sites, site, facts,
          pos, spans,
          depends, installed, excludes, initial, names_to_do, done, cpc, csteps

\* The walk's state, and the state of the two bytecode harnesses below.
wvars == <<children, bad, alt, synthetic, met, pc, top, stack, heap, cur,
           searched, returned, scans, steps>>
bvars == <<raw, bpc, chains, loads, value, sites, site, facts>>
\* The position of the scan of function_calls and the matches it has met.
svars == <<pos, spans>>
\* The state of walk_dependency_tree and the conda-meta directory it reads.
cvars == <<depends, installed, excludes, initial, names_to_do, done, cpc,
           csteps>>
vars == <<wvars, bvars, svars, cvars>>

\* function_calls is not being stepped through.
ScanIdle ==
    /\ pos = 0
    /\ spans = <<>>

\* walk_dependency_tree is not running and conda-meta is empty.
CondaIdle ==
    /\ depends = <<>>
    /\ installed = {}
    /\ excludes = <<>>
    /\ initial = 0
    /\ names_to_do = <<>>
    /\ done = <<>>
    /\ cpc = "idle"
    /\ csteps = 0

RECURSIVE SortedSeq(_)
SortedSeq(S) ==
    IF S = {} THEN <<>>
    ELSE LET m == CHOOSE x \in S : \A y \in S : x <= y
         IN  <<m>> \o SortedSeq(S \ {m})

\* code.co_consts: 0 stands for None, a member of Units for a code object.
co_consts(u) == <<0>> \o SortedSeq(children[u])
co_names(u) == <<"foo">>

\* The fields of a code object that say where and how it was defined.  All
\* units agree on them, except that the unit alt.unit (0 for none) differs
\* from the others in the one field alt.field.
NoAlt == [unit |-> 0, field |-> "none"]
AltFields == {"co_name", "co_firstlineno", "co_argcount"}
co_name(u) == IF alt = [unit |-> u, field |-> "co_name"] THEN "g" ELSE "f"
co_firstlineno(u) ==
    IF alt = [unit |-> u, field |-> "co_firstlineno"] THEN 2 ELSE 1
co_argcount(u) ==
    IF alt = [unit |-> u, field |-> "co_argcount"] THEN 1 ELSE 0
co_code(u) ==
    IF u = bad
    THEN <<LOAD_NAME, 1, LOAD_CONST, 0, CALL_FUNCTION, 1>>
    ELSE <<LOAD_NAME, 0, LOAD_CONST, 0, CALL_FUNCTION, 1>>

\* isinstance(const, CodeType)
IsCodeType(const) == const \in Units

\* The search function that recursive_function_calls passes.
search(u) == function_calls(co_code(u), co_names(u), co_consts(u))

(***************************************************************************)
(* CodeType.__hash__ and CodeType.__eq__, which the dict _memo uses for    *)
(* `code not in _memo` and `_memo[code] = ...`.  Both go by content:       *)
(* equality compares co_name, the argument counts, co_flags,               *)
(* co_firstlineno, co_code, co_consts, co_names and the variable name      *)
(* tuples, and so descends into the code objects among the constants.      *)
(* The units of the model agree on every compared field that is not        *)
(* listed in CodeEq.  Neither guards against a code object that is         *)
(* reachable from itself: the descent then has no end, and `depth` nested  *)
(* calls (the stack) are exhausted.  The descent ends at the synthetic     *)
(* unit, whose hash and equality are those of object: its identity.        *)
(***************************************************************************)
RECURSIVE HashReturns(_, _)
HashReturns(u, depth) ==
    IF u = synthetic THEN TRUE
    ELSE IF depth = 0 THEN FALSE
    ELSE \A c \in children[u] : HashReturns(c, depth - 1)

\* hash(code) returns: no descent is longer than the number of units.
Hashable(u) == HashReturns(u, NUnits)

RECURSIVE CodeEq(_, _)
CodeEq(u, v) ==
    \/ u = v
    \/ /\ u # synthetic
       /\ v # synthetic
       /\ co_name(u) = co_name(v)
       /\ co_argcount(u) = co_argcount(v)
       /\ co_firstlineno(u) = co_firstlineno(v)
       /\ co_code(u) = co_code(v)
       /\ co_names(u) = co_names(v)
       /\ Len(co_consts(u)) = Len(co_consts(v))
       /\ \A k \in 1..Len(co_consts(u)) :
            LET a == co_consts(u)[k]
                b == co_consts(v)[k]
            IN  IF IsCodeType(a) /\ IsCodeType(b) THEN CodeEq(a, b)
                ELSE a = b

\* Mutant: the dict compares keys by identity alone.
KeyMatches_Identity(key, code) == key = code

\* The lookup of a dict: a stored key that is the object or equals it.
KeyMatches(key, code) == key = code \/ CodeEq(key, code)

\* Mutant: _memo is never consulted.
InMemo_Never(memo, code) == FALSE

\* code in _memo, the dict being a sequence of <<key, value>> in insertion
\* order.
InMemo(memo, code) == \E k \in 1..Len(memo) : KeyMatches(memo[k][1], code)

\* Mutant: the nested code objects are walked before the unit's own result
\* is stored.
ProgramOrder_ChildrenFirst(at) ==
    CASE at = "L156" -> "L158"
      [] at = "L158" -> "L157"
      [] at = "L157" -> "L161"

\* The statements of search_recursively in the order the function runs
\* them when code is not in _memo: line 156, then line 157, then the loop
\* of line 158, then line 161.
ProgramOrder(at) ==
    CASE at = "L156" -> "L157"
      [] at = "L157" -> "L158"
      [] at = "L158" -> "L161"

Frame(u, at, i) == [code |-> u, at |-> at, i |-> i]
TopFrame == stack[Len(stack)]
SetTop(f) == [stack EXCEPT ![Len(stack)] = f]
Memo == heap[cur]

(***************************************************************************)
(* The graphs a caller can build.  A code object's co_consts is a tuple    *)
(* fixed when the object is made, so no code object is among its own       *)
(* constants or those of a code object nested in it; only through the      *)
(* synthetic unit, whose co_consts is an attribute that can be assigned,   *)
(* can links close a cycle.  Such a graph is one in which the hash of      *)
(* every unit returns.                                                     *)
(***************************************************************************)
RECURSIVE EdgeCount(_, _)
EdgeCount(f, S) ==
    IF S = {} THEN 0
    ELSE LET u == CHOOSE x \in S : TRUE
         IN  Cardinality(f[u]) + EdgeCount(f, S \ {u})

\* The subsets of S of at most k members.
RECURSIVE UpTo(_, _)
UpTo(S, k) ==
    IF k = 0 \/ S = {} THEN {{}}
    ELSE LET x == CHOOSE y \in S : TRUE
         IN  UpTo(S \ {x}, k) \cup {T \cup {x} : T \in UpTo(S \ {x}, k - 1)}

\* The graphs of at most MaxEdges nested-constant links among the units V.
Graphs(V) ==
    {[u \in Units |-> {v \in Units : <<u, v>> \in E}] :
        E \in UpTo(V \X V, MaxEdges)}

Constructible == \A u \in Units : Hashable(u)

\* No bytecode harness is running.
BytesIdle ==
    /\ raw = <<>>
    /\ bpc = "off"
    /\ chains = <<>>
    /\ loads = <<>>
    /\ value = 0
    /\ sites = <<>>
    /\ site = <<>>
    /\ facts = [err |-> FALSE, out |-> <<>>]

\* No call made yet.
NotCalled ==
    /\ met = <<>>
    /\ pc = "idle"
    /\ top = 0
    /\ stack = <<>>
    /\ heap = <<>>
    /\ cur = 0
    /\ searched = <<>>
    /\ returned = <<>>
    /\ scans = 0
    /\ steps = 0

\* Init: code objects only, linked by any constructible graph over
\* WalkUnits, at most one of them with code that search fails on (bad), all
\* with the same definition fields.
Init ==
    /\ BytesIdle
    /\ ScanIdle
    /\ CondaIdle
    /\ children \in Graphs(WalkUnits)
    /\ bad \in WalkUnits \cup {0}
    /\ alt = NoAlt
    /\ synthetic = 0
    /\ Constructible
    /\ NotCalled

\* Code objects only, linked by any constructible graph over all units,
\* each with code that search accepts, and any one unit differing from the
\* others in any one definition field.
InitFields ==
    /\ BytesIdle
    /\ ScanIdle
    /\ CondaIdle
    /\ children \in Graphs(Units)
    /\ bad = 0
    /\ alt \in {NoAlt} \cup [unit : Units, field : AltFields]
    /\ synthetic = 0
    /\ Constructible
    /\ NotCalled

\* Any constructible graph over all units, of which any one may be the
\* synthetic unit: the graphs with cycles are among these.
InitSynthetic ==
    /\ BytesIdle
    /\ ScanIdle
    /\ CondaIdle
    /\ children \in Graphs(Units)
    /\ bad = 0
    /\ alt = NoAlt
    /\ synthetic \in Units \cup {0}
    /\ Constructible
    /\ NotCalled

\* Mutant: one dict made once and used by every call (a default `_memo={}`).
FreshMemo_Shared ==
    [h |-> IF heap = <<>> THEN <<<<>>>> ELSE heap, c |-> 1]

\* The dict a call without _memo works on: a new one.
FreshMemo == [h |-> Append(heap, <<>>), c |-> Len(heap) + 1]

\* A top-level call search_recursively(search, t): `_memo is None`, so a
\* new dict is made.
Call(t) ==
    /\ pc \in {"idle", "done", "raised"}
    /\ scans < MaxScans
    /\ scans' = scans + 1
    /\ steps' = 0
    /\ UNCHANGED <<bvars, svars, cvars>>
    /\ pc' = "run"
    /\ top' = t
    /\ heap' = FreshMemo.h
    /\ cur' = FreshMemo.c
    /\ stack' = <<Frame(t, "L156", 1)>>
    /\ searched' = <<>>
    /\ met' = <<>>
    /\ UNCHANGED <<children, bad, alt, synthetic, returned>>

\* `if code not in _memo`: the dict hashes code, then looks it up.
Test156 ==
    /\ pc = "run"
    /\ TopFrame.at = "L156"
    /\ IF ~Hashable(TopFrame.code)
       THEN /\ pc' = "crashed"
            /\ UNCHANGED stack
       ELSE /\ pc' = pc
            /\ stack' = SetTop([TopFrame EXCEPT !.at =
                   IF InMemo(Memo, TopFrame.code) THEN "L161"
                   ELSE ProgramOrder("L156")])
    /\ steps' = steps + 1
    /\ UNCHANGED <<bvars, svars, cvars>>
    /\ met' = Append(met, TopFrame.code)
    /\ UNCHANGED <<children, bad, alt, synthetic, top, heap, cur, searched, returned,
                   scans>>

\* Mutant: an exception of search is caught, a marker stored for the unit,
\* and the walk goes on.
Store157_Swallow ==
    /\ pc = "run"
    /\ TopFrame.at = "L157"
    /\ searched' = Append(searched, TopFrame.code)
    /\ LET r == search(TopFrame.code)
       IN  heap' = [heap EXCEPT ![cur] = Append(@, <<TopFrame.code, r.out>>)]
    /\ pc' = pc
    /\ stack' = SetTop([TopFrame EXCEPT !.at = ProgramOrder("L157")])
    /\ steps' = steps + 1
    /\ UNCHANGED <<bvars, svars, cvars>>
    /\ UNCHANGED <<children, bad, alt, synthetic, met, top, cur, returned, scans>>

\* `_memo[code] = search(code)`: an exception of search leaves every frame.
Store157 ==
    /\ pc = "run"
    /\ TopFrame.at = "L157"
    /\ searched' = Append(searched, TopFrame.code)
    /\ LET r == search(TopFrame.code)
       IN  IF r.err
           THEN /\ pc' = "raised"
                /\ stack' = <<>>
                /\ UNCHANGED heap
           ELSE /\ pc' = pc
                /\ heap' = [heap EXCEPT ![cur] = Append(@, <<TopFrame.code, r.out>>)]
                /\ stack' = SetTop([TopFrame EXCEPT !.at = ProgramOrder("L157")])
    /\ steps' = steps + 1
    /\ UNCHANGED <<bvars, svars, cvars>>
    /\ UNCHANGED <<children, bad, alt, synthetic, met, top, cur, returned, scans>>

\* `for const in code.co_consts`, a constant that is no code object.
Skip159 ==
    /\ pc = "run"
    /\ TopFrame.at = "L158"
    /\ TopFrame.i <= Len(co_consts(TopFrame.code))
    /\ ~IsCodeType(co_consts(TopFrame.code)[TopFrame.i])
    /\ stack' = SetTop([TopFrame EXCEPT !.i = @ + 1])
    /\ steps' = steps + 1
    /\ UNCHANGED <<bvars, svars, cvars>>
    /\ UNCHANGED <<children, bad, alt, synthetic, met, pc, top, heap, cur, searched,
                   returned, scans>>

\* `search_recursively(search, const, _memo)` on a constant that is one.
Recurse160 ==
    /\ pc = "run"
    /\ TopFrame.at = "L158"
    /\ TopFrame.i <= Len(co_consts(TopFrame.code))
    /\ IsCodeType(co_consts(TopFrame.code)[TopFrame.i])
    /\ stack' = Append(SetTop([TopFrame EXCEPT !.i = @ + 1]),
                       Frame(co_consts(TopFrame.code)[TopFrame.i], "L156", 1))
    /\ steps' = steps + 1
    /\ UNCHANGED <<bvars, svars, cvars>>
    /\ UNCHANGED <<children, bad, alt, synthetic, met, pc, top, heap, cur, searched,
                   returned, scans>>

\* The for loop is over.
LoopEnd ==
    /\ pc = "run"
    /\ TopFrame.at = "L158"
    /\ TopFrame.i > Len(co_consts(TopFrame.code))
    /\ stack' = SetTop([TopFrame EXCEPT !.at = ProgramOrder("L158")])
    /\ steps' = steps + 1
    /\ UNCHANGED <<bvars, svars, cvars>>
    /\ UNCHANGED <<children, bad, alt, synthetic, met, pc, top, heap, cur, searched,
                   returned, scans>>

\* `return _memo`: to the calling frame, which drops the value, or to the
\* caller of the top-level call, which gets the dict.
Return161 ==
    /\ pc = "run"
    /\ TopFrame.at = "L161"
    /\ stack' = SubSeq(stack, 1, Len(stack) - 1)
    /\ IF Len(stack) = 1
       THEN /\ pc' = "done"
            /\ returned' = Append(returned, [top |-> top, map |-> cur])
       ELSE UNCHANGED <<pc, returned>>
    /\ steps' = steps + 1
    /\ UNCHANGED <<bvars, svars, cvars>>
    /\ UNCHANGED <<children, bad, alt, synthetic, met, top, heap, cur, searched, scans>>

Next ==
    \/ \E t \in Units : Call(t)
    \/ Test156
    \/ Store157
    \/ Skip159
    \/ Recurse160
    \/ LoopEnd
    \/ Return161

Spec == Init /\ [][Next]_vars

\* One call of search_recursively on units that differ in a definition
\* field.
CallOnce(t) ==
    /\ scans = 0
    /\ Call(t)

NextFields ==
    \/ \E t \in Units : CallOnce(t)
    \/ Test156
    \/ Store157
    \/ Skip159
    \/ Recurse160
    \/ LoopEnd
    \/ Return161

SpecFields == InitFields /\ [][NextFields]_vars

\* One call on a graph that may hold the synthetic unit.
SpecSynthetic == InitSynthetic /\ [][NextFields]_vars

----------------------------------------------------------------------------
(***************************************************************************)
(* extended_arguments and parse_loads on byte spans.                       *)
(*                                                                         *)
(* The span raw is built pair by pair: EXTENDED_ARG pairs, each with any   *)
(* operand byte of ArgBytes, and load pairs; a load pair closes the chain  *)
(* that the EXTENDED_ARG pairs before it opened.  chains records the       *)
(* chains in the order they were closed.                                   *)
(***************************************************************************)

\* The walk is not running.
WalkIdle ==
    /\ children = [u \in Units |-> {}]
    /\ bad = 0
    /\ alt = NoAlt
    /\ synthetic = 0
    /\ met = <<>>
    /\ pc = "idle"
    /\ top = 0
    /\ stack = <<>>
    /\ heap = <<>>
    /\ cur = 0
    /\ searched = <<>>
    /\ returned = <<>>
    /\ scans = 0
    /\ steps = 0

\* Operand bytes, one of them the EXTENDED_ARG opcode byte itself.
ArgBytes == {0, 1, 2, 3, EXTENDED_ARG}
\* Opcodes that end a chain.
LoadOps == {LOAD_CONST}
\* Python's integers are unbounded, the model's end here (2^31 - 1): a chain
\* is only extended while every value it can still decode to is below it.
MaxValue == 2^30 + (2^30 - 1)

RECURSIVE Flatten(_)
Flatten(ss) == IF ss = <<>> THEN <<>> ELSE ss[1] \o Flatten(Tail(ss))

\* The EXTENDED_ARG pairs at the end of raw that no load pair has closed yet.
OpenChain == SubSeq(raw, Len(Flatten(chains)) + 1, Len(raw))

InitLoads ==
    /\ WalkIdle
    /\ ScanIdle
    /\ CondaIdle
    /\ raw = <<>>
    /\ bpc = "build"
    /\ chains = <<>>
    /\ loads = <<>>
    /\ value = 0
    /\ sites = <<>>
    /\ site = <<>>
    /\ facts = [err |-> FALSE, out |-> <<>>]

EmitExtendedArg(b) ==
    /\ bpc = "build"
    /\ Len(raw) < 2 * MaxPairs
    /\ extended_arguments(OpenChain \o <<EXTENDED_ARG, b>>)
         <= (MaxValue - 255) \div 256
    /\ raw' = raw \o <<EXTENDED_ARG, b>>
    /\ UNCHANGED <<bpc, chains, loads, value, sites, site, facts>>
    /\ UNCHANGED <<wvars, svars, cvars>>

EmitLoad(op, b) ==
    /\ bpc = "build"
    /\ Len(raw) < 2 * MaxPairs
    /\ raw' = raw \o <<op, b>>
    /\ chains' = Append(chains, OpenChain \o <<op, b>>)
    /\ UNCHANGED <<bpc, loads, value, sites, site, facts>>
    /\ UNCHANGED <<wvars, svars, cvars>>

\* extended_arguments(raw) on a span that is one chain.
DoExtendedArguments ==
    /\ bpc = "build"
    /\ Len(chains) = 1
    /\ OpenChain = <<>>
    /\ value' = extended_arguments(raw)
    /\ bpc' = "value"
    /\ UNCHANGED <<raw, chains, loads, sites, site, facts>>
    /\ UNCHANGED <<wvars, svars, cvars>>

\* list(parse_loads(raw)) on a span that is a concatenation of chains.
DoParseLoads ==
    /\ bpc = "build"
    /\ OpenChain = <<>>
    /\ loads' = parse_loads(raw)
    /\ bpc' = "loads"
    /\ UNCHANGED <<raw, chains, value, sites, site, facts>>
    /\ UNCHANGED <<wvars, svars, cvars>>

NextLoads ==
    \/ \E b \in ArgBytes : EmitExtendedArg(b)
    \/ \E op \in LoadOps, b \in ArgBytes : EmitLoad(op, b)
    \/ DoExtendedArguments
    \/ DoParseLoads

SpecLoads == InitLoads /\ [][NextLoads]_vars

----------------------------------------------------------------------------
(***************************************************************************)
(* function_calls on assembled call sites.                                 *)
(*                                                                         *)
(* The code under scan has co_names = CoNames and co_consts = CoConsts.    *)
(* Its co_code (raw) is assembled instruction by instruction as a series   *)
(* of call sites: a root load, attribute loads, constant loads, an invoke. *)
(* Any instruction may be preceded by EXTENDED_ARG 0.  sites records what  *)
(* was assembled: the indices loaded and the operand of the invoke.        *)
(***************************************************************************)
CoNames == <<"foo", "bar", "baz">>
CoConsts == <<1, 2, 3>>

\* The instructions the sites are assembled from.  Index 3 is one past the
\* end of either table.
RootInstrs == {<<LOAD_NAME, 0>>, <<LOAD_GLOBAL, 1>>, <<LOAD_FAST, 3>>}
AttrInstrs == {<<LOAD_ATTR, 1>>, <<LOAD_METHOD, 2>>}
ConstIdx == 0..Len(CoConsts)
CallInstrs == {<<CALL_FUNCTION, 0>>, <<CALL_FUNCTION, 1>>, <<CALL_FUNCTION, 3>>,
               <<CALL_METHOD, 1>>, <<CALL_METHOD, 2>>}

InitCalls ==
    /\ WalkIdle
    /\ ScanIdle
    /\ CondaIdle
    /\ raw = <<>>
    /\ bpc = "asm"
    /\ chains = <<>>
    /\ loads = <<>>
    /\ value = 0
    /\ sites = <<>>
    /\ site = <<>>
    /\ facts = [err |-> FALSE, out |-> <<>>]

Room == bpc = "asm" /\ Len(raw) < 2 * MaxInstr
PendingExt == raw # <<>> /\ raw[Len(raw) - 1] = EXTENDED_ARG

EmitExtZero ==
    /\ Room
    /\ raw' = raw \o <<EXTENDED_ARG, 0>>
    /\ UNCHANGED <<bpc, chains, loads, value, sites, site, facts>>
    /\ UNCHANGED <<wvars, svars, cvars>>

EmitRoot(op, r) ==
    /\ Room
    /\ site = <<>>
    /\ raw' = raw \o <<op, r>>
    /\ site' = <<[root |-> r, attrs |-> <<>>, args |-> <<>>]>>
    /\ UNCHANGED <<bpc, chains, loads, value, sites, facts>>
    /\ UNCHANGED <<wvars, svars, cvars>>

EmitAttr(op, a) ==
    /\ Room
    /\ site # <<>>
    /\ site[1].args = <<>>
    /\ raw' = raw \o <<op, a>>
    /\ site' = <<[site[1] EXCEPT !.attrs = Append(@, a)]>>
    /\ UNCHANGED <<bpc, chains, loads, value, sites, facts>>
    /\ UNCHANGED <<wvars, svars, cvars>>

EmitConst(c) ==
    /\ Room
    /\ site # <<>>
    /\ raw' = raw \o <<LOAD_CONST, c>>
    /\ site' = <<[site[1] EXCEPT !.args = Append(@, c)]>>
    /\ UNCHANGED <<bpc, chains, loads, value, sites, facts>>
    /\ UNCHANGED <<wvars, svars, cvars>>

EmitCall(op, n) ==
    /\ Room
    /\ site # <<>>
    /\ raw' = raw \o <<op, n>>
    /\ sites' = Append(sites, [root |-> site[1].root, attrs |-> site[1].attrs,
                               args |-> site[1].args, argc |-> n])
    /\ site' = <<>>
    /\ UNCHANGED <<bpc, chains, loads, value, facts>>
    /\ UNCHANGED <<wvars, svars, cvars>>

\* function_calls(code) on the assembled code object.
Scan ==
    /\ bpc = "asm"
    /\ site = <<>>
    /\ sites # <<>>
    /\ ~PendingExt
    /\ facts' = function_calls(raw, CoNames, CoConsts)
    /\ bpc' = "scanned"
    /\ UNCHANGED <<raw, chains, loads, value, sites, site>>
    /\ UNCHANGED <<wvars, svars, cvars>>

NextCalls ==
    \/ EmitExtZero
    \/ \E i \in RootInstrs : EmitRoot(i[1], i[2])
    \/ \E i \in AttrInstrs : EmitAttr(i[1], i[2])
    \/ \E c \in ConstIdx : EmitConst(c)
    \/ \E i \in CallInstrs : EmitCall(i[1], i[2])
    \/ Scan

SpecCalls == InitCalls /\ [][NextCalls]_vars

----------------------------------------------------------------------------
(***************************************************************************)
(* function_calls step by step on arbitrary byte streams.                  *)
(*                                                                         *)
(* co_code (raw) is any string over StreamBytes of even length, co_names   *)
(* and co_consts are CoNames and CoConsts.  One step is one turn of the    *)
(* for loop over finditer: pos is where the search for the next match      *)
(* starts, spans lists the matches the loop body has been entered for.     *)
(***************************************************************************)

\* Two small bytes (indices, counts, and at even offsets the opcodes
\* POP_TOP-like instructions have) and one opcode of each kind.
StreamBytes == {0, 1, LOAD_CONST, LOAD_NAME, CALL_FUNCTION}

\* The next match of finditer at or after position p, or ok = FALSE.
RECURSIVE SearchFrom(_, _)
SearchFrom(code, p) ==
    IF p > Len(code) THEN [ok |-> FALSE]
    ELSE LET m == MatchCallAt(code, p)
         IN  IF m.ok THEN m ELSE SearchFrom(code, p + 1)

\* Mutant: the search starts again where the last match started.
NextPos_Rescan(m) == m.start

\* Where finditer goes on after the match m.
NextPos(m) == m.end

InitScan ==
    /\ WalkIdle
    /\ CondaIdle
    /\ raw = <<>>
    /\ bpc = "bytes"
    /\ chains = <<>>
    /\ loads = <<>>
    /\ value = 0
    /\ sites = <<>>
    /\ site = <<>>
    /\ facts = [err |-> FALSE, out |-> <<>>]
    /\ pos = 0
    /\ spans = <<>>

AppendByte(b) ==
    /\ bpc = "bytes"
    /\ Len(raw) < MaxBytes
    /\ raw' = Append(raw, b)
    /\ UNCHANGED <<bpc, chains, loads, value, sites, site, facts>>
    /\ UNCHANGED <<wvars, svars, cvars>>

\* out = [] and the call of finditer.
StartScan ==
    /\ bpc = "bytes"
    /\ Len(raw) % 2 = 0
    /\ bpc' = "scan"
    /\ pos' = 1
    /\ UNCHANGED <<raw, chains, loads, value, sites, site, facts, spans>>
    /\ UNCHANGED <<wvars, cvars>>

\* A match whose arg_count equals len(args): out.append.
MatchKept ==
    /\ bpc = "scan"
    /\ LET m == SearchFrom(raw, pos)
       IN  /\ m.ok
           /\ LET c == CallOf(m, CoNames, CoConsts)
              IN  /\ ~c.err
                  /\ c.keep
                  /\ facts' = [facts EXCEPT !.out = Append(@, c.fact)]
           /\ spans' = Append(spans, [start |-> m.start, end |-> m.end,
                                      kept |-> TRUE])
           /\ pos' = NextPos(m)
    /\ UNCHANGED <<raw, bpc, chains, loads, value, sites, site>>
    /\ UNCHANGED <<wvars, cvars>>

\* A match whose arg_count differs from len(args): continue.
MatchSkipped ==
    /\ bpc = "scan"
    /\ LET m == SearchFrom(raw, pos)
       IN  /\ m.ok
           /\ LET c == CallOf(m, CoNames, CoConsts)
              IN  /\ ~c.err
                  /\ ~c.keep
           /\ spans' = Append(spans, [start |-> m.start, end |-> m.end,
                                      kept |-> FALSE])
           /\ pos' = NextPos(m)
    /\ UNCHANGED <<raw, bpc, chains, loads, value, sites, site, facts>>
    /\ UNCHANGED <<wvars, cvars>>

\* A match with an index outside co_names or co_consts: IndexError leaves
\* function_calls.
MatchRaises ==
    /\ bpc = "scan"
    /\ LET m == SearchFrom(raw, pos)
       IN  /\ m.ok
           /\ CallOf(m, CoNames, CoConsts).err
           /\ spans' = Append(spans, [start |-> m.start, end |-> m.end,
                                      kept |-> FALSE])
           /\ pos' = NextPos(m)
    /\ facts' = [err |-> TRUE, out |-> <<>>]
    /\ bpc' = "raised"
    /\ UNCHANGED <<raw, chains, loads, value, sites, site>>
    /\ UNCHANGED <<wvars, cvars>>

\* finditer is exhausted: return out.
ScanEnd ==
    /\ bpc = "scan"
    /\ ~SearchFrom(raw, pos).ok
    /\ bpc' = "scanned"
    /\ pos' = Len(raw) + 1
    /\ UNCHANGED <<raw, chains, loads, value, sites, site, facts, spans>>
    /\ UNCHANGED <<wvars, cvars>>

NextScan ==
    \/ \E b \in StreamBytes : AppendByte(b)
    \/ StartScan
    \/ MatchKept
    \/ MatchSkipped
    \/ MatchRaises
    \/ ScanEnd

SpecScan == InitScan /\ [][NextScan]_vars

----------------------------------------------------------------------------
(***************************************************************************)
(* walk_dependency_tree (utils/hooks/conda.py).                            *)
(*                                                                         *)
(* Distribution names are the numbers of Dists.  conda-meta holds one json *)
(* file for every installed distribution n, listing depends[n].  The name  *)
(* of every distribution starts with the name of the one before it and a   *)
(* "-" (a, a-b, a-b-c), as numpy-base does with numpy.                     *)
(***************************************************************************)
Dists == 1..NDists

\* The json files of conda-meta, parsed.
MetaFiles ==
    {[name |-> n, depends |-> SortedSeq(depends[n])] : n \in installed}

\* CONDA_META_DIR.glob(name + "-*.json")
Glob(name) == {f \in MetaFiles : f.name >= name}

\* search_distribution(name): the file whose "name" is name, or
\* ModuleNotFoundError.
search_distribution(name) ==
    LET hits == {f \in Glob(name) : name = f.name}
    IN  IF hits = {} THEN [found |-> FALSE]
        ELSE [found |-> TRUE, dic |-> CHOOSE f \in hits : TRUE]

\* done as a dict in insertion order.
DoneKeys(d) == {d[i].name : i \in 1..Len(d)}
DonePut(d, name, dic) ==
    IF name \in DoneKeys(d)
    THEN [i \in 1..Len(d) |->
            IF d[i].name = name THEN [name |-> name, dic |-> dic] ELSE d[i]]
    ELSE Append(d, [name |-> name, dic |-> dic])

\* Mutant: nothing counts as done.
AlreadyDone_Never(_name, d) == FALSE

\* _name in done
AlreadyDone(_name, d) == _name \in DoneKeys(d)

\* excludes is not None and _name in excludes
IsExcluded(_name, ex) == ex # <<>> /\ _name \in ex[1]

\* The for loop over distribution["depends"] from the k-th entry on: the
\* names appended to the to-do list.
RECURSIVE ForDepends(_, _, _, _, _)
ForDepends(deps, k, name, d, ex) ==
    IF k > Len(deps) THEN <<>>
    ELSE IF \/ AlreadyDone(deps[k], d)
            \/ deps[k] = name
            \/ IsExcluded(deps[k], ex)
         THEN ForDepends(deps, k + 1, name, d, ex)
         ELSE <<deps[k]>> \o ForDepends(deps, k + 1, name, d, ex)

InitConda ==
    /\ WalkIdle
    /\ BytesIdle
    /\ ScanIdle
    /\ installed \in {S \in SUBSET Dists : Cardinality(Dists \ S) <= MaxMissing}
    /\ depends \in {f \in [Dists -> SUBSET Dists] :
                      /\ EdgeCount(f, Dists) <= MaxDepends
                      /\ \A n \in Dists \ installed : f[n] = {}}
    /\ excludes = <<>>
    /\ initial = 0
    /\ names_to_do = <<>>
    /\ done = <<>>
    /\ cpc = "idle"
    /\ csteps = 0

\* walk_dependency_tree(i, ex) up to the while loop; ex = <<>> is None.
CallWalk(i, ex) ==
    /\ cpc = "idle"
    /\ initial' = i
    /\ excludes' = ex
    /\ done' = <<>>
    /\ names_to_do' = <<i>>
    /\ cpc' = "loop"
    /\ UNCHANGED <<depends, installed, csteps>>
    /\ UNCHANGED <<wvars, bvars, svars>>

\* One turn of the while loop for a name that is found.
PopFound ==
    /\ cpc = "loop"
    /\ names_to_do # <<>>
    /\ LET name == names_to_do[Len(names_to_do)]
           rest == SubSeq(names_to_do, 1, Len(names_to_do) - 1)
           r == search_distribution(name)
       IN  /\ r.found
           /\ done' = DonePut(done, name, r.dic)
           /\ names_to_do' =
                 rest \o ForDepends(r.dic.depends, 1, name,
                                    DonePut(done, name, r.dic), excludes)
    /\ csteps' = csteps + 1
    /\ UNCHANGED <<depends, installed, excludes, initial, cpc>>
    /\ UNCHANGED <<wvars, bvars, svars>>

\* One turn of the while loop for a name that is not found: continue.
PopNotFound ==
    /\ cpc = "loop"
    /\ names_to_do # <<>>
    /\ ~search_distribution(names_to_do[Len(names_to_do)]).found
    /\ names_to_do' = SubSeq(names_to_do, 1, Len(names_to_do) - 1)
    /\ csteps' = csteps + 1
    /\ UNCHANGED <<depends, installed, excludes, initial, done, cpc>>
    /\ UNCHANGED <<wvars, bvars, svars>>

\* The to-do list is empty: return done.
ReturnDone ==
    /\ cpc = "loop"
    /\ names_to_do = <<>>
    /\ cpc' = "returned"
    /\ UNCHANGED <<depends, installed, excludes, initial, names_to_do, done,
                   csteps>>
    /\ UNCHANGED <<wvars, bvars, svars>>

NextConda ==
    \/ \E i \in Dists :
         \E ex \in {<<>>} \cup {<<S>> : S \in {T \in SUBSET Dists :
                                                Cardinality(T) <= MaxExcluded}} :
            CallWalk(i, ex)
    \/ PopFound
    \/ PopNotFound
    \/ ReturnDone

SpecConda == InitConda /\ [][NextConda]_vars

----------------------------------------------------------------------------
(***************************************************************************)
(* Properties of search_recursively.                                       *)
(***************************************************************************)

RECURSIVE Closure(_)
Closure(S) ==
    LET T == S \cup UNION {children[u] : u \in S}
    IN  IF T = S THEN S ELSE Closure(T)

\* The units reachable from t through co_consts, t included.
Reach(t) == Closure({t})

Keys(memo) == {memo[k][1] : k \in 1..Len(memo)}
Count(seq, u) == Cardinality({k \in 1..Len(seq) : seq[k] = u})
Parents(u) == {v \in Units : u \in children[v]}

\* C1, as stated: when the call returns, the keys of the map are exactly the
\* units reachable from top, and search was applied once to each of them and
\* to no other unit.
C1_Original ==
    pc = "done" =>
        /\ Keys(Memo) = Reach(top)
        /\ \A u \in Units : Count(searched, u) = IF u \in Reach(top) THEN 1 ELSE 0

\* C1, amended: when the call returns, every key is a unit reachable from
\* top, every unit reachable from top equals (CodeType.__eq__) exactly one
\* key, the map has one entry per key, and search was applied exactly once to
\* each key and to no other unit.
C1_KeysCoverReachable ==
    pc = "done" =>
        /\ Keys(Memo) \subseteq Reach(top)
        /\ Len(Memo) = Cardinality(Keys(Memo))
        /\ \A u \in Reach(top) :
             Cardinality({k \in Keys(Memo) : CodeEq(k, u)}) = 1
        /\ \A u \in Units : Count(searched, u) = IF u \in Keys(Memo) THEN 1 ELSE 0

\* C1's case: a returned walk over three units, one of them a constant of
\* two different reachable parents.
C1_Witness ==
    /\ pc = "done"
    /\ Cardinality(Reach(top)) >= 3
    /\ \E u \in Reach(top) : Cardinality(Parents(u) \cap Reach(top)) >= 2

\* Identical instructions, symbols and constants, nested units compared
\* the same way.
RECURSIVE SameStructure(_, _, _)
SameStructure(u, v, depth) ==
    \/ u = v
    \/ /\ depth > 0
       /\ co_code(u) = co_code(v)
       /\ co_names(u) = co_names(v)
       /\ Len(co_consts(u)) = Len(co_consts(v))
       /\ \A k \in 1..Len(co_consts(u)) :
            LET a == co_consts(u)[k]
                b == co_consts(v)[k]
            IN  IF a \in Units /\ b \in Units
                THEN SameStructure(a, b, depth - 1)
                ELSE a = b

\* C2, as stated: two distinct reachable units of identical structure are
\* both analysed and both have an entry.
C2_Original ==
    pc = "done" =>
        \A u, v \in Reach(top) :
            (u # v /\ SameStructure(u, v, NUnits)) =>
                /\ Count(searched, u) = 1 /\ Count(searched, v) = 1
                /\ u \in Keys(Memo) /\ v \in Keys(Memo)

\* u is the first unit met among the units equal to it: line 156 tested u,
\* and tested no unit equal to u before.
FirstMet(u) ==
    \E k \in 1..Len(met) :
        /\ met[k] = u
        /\ \A j \in 1..(k - 1) : ~CodeEq(met[j], u)

\* The entries of the map whose key is u or equals it.
EntriesFor(u) == {k \in 1..Len(Memo) : CodeEq(Memo[k][1], u)}

\* C2, amended: the map is keyed by equality of code objects
\* (CodeType.__eq__), not by identity.  Among the reachable units that are
\* equal to each other, the first one that line 156 meets is analysed, once,
\* and is the key of the one entry that answers for all of them; the others
\* are not analysed and are no keys.  So of two distinct equal units at most
\* one is analysed.  Two units of identical structure that are not equal
\* (they differ in co_name, co_firstlineno or co_argcount) are answered for
\* by two different entries, and each of them is analysed exactly when no
\* unit equal to it was met before it.
C2_EqualUnitsShareEntry ==
    pc = "done" =>
        /\ \A u \in Reach(top) :
             /\ Count(searched, u) = IF FirstMet(u) THEN 1 ELSE 0
             /\ u \in Keys(Memo) <=> FirstMet(u)
             /\ \E k \in 1..Len(Memo) :
                  /\ EntriesFor(u) = {k}
                  /\ FirstMet(Memo[k][1])
        /\ \A u, v \in Reach(top) :
             /\ (u # v /\ CodeEq(u, v)) =>
                   /\ ~(FirstMet(u) /\ FirstMet(v))
                   /\ EntriesFor(u) = EntriesFor(v)
             /\ (SameStructure(u, v, NUnits) /\ ~CodeEq(u, v)) =>
                   EntriesFor(u) \cap EntriesFor(v) = {}

\* C2's case: a returned walk that met three distinct units of identical
\* structure, the first two equal and the third differing from them in a
\* definition field: the second was not analysed, the third was.
C2_Witness ==
    /\ pc = "done"
    /\ \E i, j, k \in 1..Len(met) :
         /\ i < j
         /\ j < k
         /\ met[i] # met[j]
         /\ CodeEq(met[i], met[j])
         /\ SameStructure(met[j], met[k], NUnits)
         /\ ~CodeEq(met[j], met[k])
         /\ Count(searched, met[i]) = 1
         /\ Count(searched, met[j]) = 0
         /\ Count(searched, met[k]) = 1

\* The most statements one call from t runs.  A unit that gets an entry
\* takes lines 156, 157, the end of its loop and 161, and one step of the
\* loop for each constant; each nested constant but the one through which a
\* unit got its entry is found in the map and takes lines 156 and 161.
StepBound(t) ==
    LET cost(u) == 2 + Len(co_consts(u)) + 2 * Cardinality(children[u])
        sum[S \in SUBSET Units] ==
            IF S = {} THEN 0
            ELSE LET u == CHOOSE x \in S : TRUE
                 IN  cost(u) + sum[S \ {u}]
    IN  2 + sum[Reach(t)]

\* C3: a call terminates on every graph, the graphs with a unit that is
\* among its own constants or among those of a unit nested in it included.
\* The hash of the unit returns at line 156; until the call returns or
\* raises there is a statement to run next; the stack never holds more
\* frames than one per reachable unit plus one; no unit is analysed twice;
\* and the call runs at most StepBound(top) statements.  When a unit that is
\* among its own constants was walked, the returned map has exactly one
\* entry for it.
C3_Terminates ==
    /\ pc # "crashed"
    /\ pc # "idle" =>
         /\ steps <= StepBound(top)
         /\ Len(stack) <= Cardinality(Reach(top)) + 1
         /\ \A u \in Units : Count(searched, u) <= 1
         /\ pc = "run" =>
              /\ stack # <<>>
              /\ TopFrame.at \in {"L156", "L157", "L158", "L161"}
         /\ pc # "run" => stack = <<>>
    /\ pc = "done" =>
         \A u \in Reach(top) :
             u \in children[u] =>
                 /\ Cardinality({k \in 1..Len(Memo) : Memo[k][1] = u}) = 1
                 /\ Cardinality(EntriesFor(u)) = 1

\* C3's case: a returned call on a unit that is among its own constants and
\* among the constants of another unit nested in it.
C3_Witness ==
    /\ pc = "done"
    /\ top \in children[top]
    /\ \E v \in children[top] : v # top /\ top \in children[v]
    /\ steps = StepBound(top)

\* C8, as stated: when the analysis of a nested unit fails, the call still
\* ends with every other reachable unit in the map, and returns the map.
C8_Original ==
    (pc \in {"done", "raised"} /\ bad \in Reach(top) /\ bad # top) =>
        /\ \A u \in Reach(top) \ {bad} : InMemo(Memo, u)
        /\ \E k \in 1..Len(returned) : returned[k].map = cur

\* C8, amended: once search has been applied to the unit it fails on, the
\* call is over: the exception has left every frame, that unit is the last
\* one analysed and has no entry, and no map is returned.
C8_FailureUnwinds ==
    Count(searched, bad) > 0 =>
        /\ pc = "raised"
        /\ stack = <<>>
        /\ searched[Len(searched)] = bad
        /\ bad \notin Keys(Memo)
        /\ \A k \in 1..Len(returned) : returned[k].map # cur

\* C8's case: the analysis failed on a nested unit while another reachable
\* unit was still to be scanned.
C8_Witness ==
    /\ pc = "raised"
    /\ bad # top
    /\ \E u \in Reach(top) : u # bad /\ ~InMemo(Memo, u)

\* C9: the maps of two returned scans are different dicts; those of the same
\* unit are identical in content; and each holds only units reachable from
\* its own top, whatever other scans ran before or after it.
C9_ScansIndependent ==
    \A i, j \in 1..Len(returned) :
        /\ Keys(heap[returned[i].map]) \subseteq Reach(returned[i].top)
        /\ i # j => returned[i].map # returned[j].map
        /\ returned[i].top = returned[j].top
              => heap[returned[i].map] = heap[returned[j].map]

\* C9's case: two scans have returned, of different units, the first having
\* left entries that the second unit does not reach.
C9_Witness ==
    /\ Len(returned) = 2
    /\ returned[1].top # returned[2].top
    /\ ~(Keys(heap[returned[1].map]) \subseteq Reach(returned[2].top))

\* C10: whenever search is applied to a nested unit, the unit whose loop
\* reached it already has its entry in the map.
C10_ParentStoredFirst ==
    [][(searched' # searched /\ Len(stack) >= 2)
          => stack[Len(stack) - 1].code \in Keys(Memo)]_vars

\* C10's case: search is about to be applied to a unit reached from a
\* parent's loop.
C10_Witness ==
    /\ pc = "run"
    /\ Len(stack) >= 2
    /\ TopFrame.at = "L157"

----------------------------------------------------------------------------
(***************************************************************************)
(* Properties of function_calls, extended_arguments and parse_loads.       *)
(***************************************************************************)

\* What the assembled sites say, read off sites and the two tables alone.
SiteInRange(s) ==
    /\ s.root < Len(CoNames)
    /\ \A k \in 1..Len(s.attrs) : s.attrs[k] < Len(CoNames)
    /\ \A k \in 1..Len(s.args) : s.args[k] < Len(CoConsts)
SiteAgrees(s) == s.argc = Len(s.args)
RECURSIVE Dotted(_)
Dotted(idx) ==
    IF Len(idx) = 1 THEN CoNames[idx[1] + 1]
    ELSE CoNames[idx[1] + 1] \o "." \o Dotted(Tail(idx))
SiteName(s) == Dotted(<<s.root>> \o s.attrs)
SiteArgs(s) == [k \in 1..Len(s.args) |-> CoConsts[s.args[k] + 1]]
RECURSIVE AgreeingSites(_)
AgreeingSites(ss) ==
    IF ss = <<>> THEN <<>>
    ELSE IF SiteAgrees(ss[1]) THEN <<ss[1]>> \o AgreeingSites(Tail(ss))
    ELSE AgreeingSites(Tail(ss))

\* C4: after a scan that returns, the facts correspond one to one, in order,
\* to the call sites whose invoke operand equals their number of constant
\* loads: a site where the two differ adds no fact, and every fact has as
\* many arguments as the invoke operand of its site.
C4_NoFactOnCountMismatch ==
    (bpc = "scanned" /\ ~facts.err) =>
        LET kept == AgreeingSites(sites)
        IN  /\ Len(facts.out) = Len(kept)
            /\ \A k \in 1..Len(facts.out) :
                  /\ Len(facts.out[k].args) = kept[k].argc
                  /\ facts.out[k].function = SiteName(kept[k])

\* foo(1) followed by a site whose invoke operand is 1 with no constant
\* load: one fact, for the first site only.
C4_Witness ==
    /\ bpc = "scanned"
    /\ ~facts.err
    /\ Len(sites) = 2
    /\ SiteAgrees(sites[1])
    /\ ~SiteAgrees(sites[2])
    /\ sites[2].args = <<>>
    /\ Len(facts.out) = 1

\* C5: a stream that is one call site, with every index inside its table
\* and an invoke operand equal to the number of constant loads, gives
\* exactly one fact: the names at the root and attribute indices joined
\* with ".", and the constants at the argument indices in order; so
\* foo(1, 2, 3) gives ("foo", <<1, 2, 3>>) and two attribute loads give
\* "foo.bar.baz".
C5_OneSiteOneFact ==
    (bpc = "scanned" /\ Len(sites) = 1) =>
        LET s == sites[1]
        IN  /\ (SiteInRange(s) /\ SiteAgrees(s)) =>
                  /\ ~facts.err
                  /\ facts.out = <<[function |-> SiteName(s),
                                    args |-> SiteArgs(s)]>>
            /\ (s = [root |-> 0, attrs |-> <<>>, args |-> <<0, 1, 2>>,
                     argc |-> 3]) =>
                  facts.out = <<[function |-> "foo", args |-> <<1, 2, 3>>]>>
            /\ (s.root = 0 /\ s.attrs = <<1, 2>> /\ SiteInRange(s)
                /\ SiteAgrees(s)) =>
                  facts.out[1].function = "foo.bar.baz"

\* foo.bar.baz(c) has been scanned and gave its one fact.
C5_Witness ==
    /\ bpc = "scanned"
    /\ Len(sites) = 1
    /\ sites[1].root = 0
    /\ sites[1].attrs = <<1, 2>>
    /\ Len(sites[1].args) = 1
    /\ sites[1].argc = 1
    /\ SiteInRange(sites[1])
    /\ Len(facts.out) = 1
    /\ facts.out[1].function = "foo.bar.baz"

\* The number of EXTENDED_ARG pairs extended_arguments is documented for.
MaxExtendedArgs == 4

RECURSIVE Pow256(_)
Pow256(e) == IF e = 0 THEN 1 ELSE 256 * Pow256(e - 1)
\* sum of operand_i * 256^(m - i) over the pairs i..m of the span c; the
\* power is not computed for an operand of 0.
RECURSIVE WeightedSum(_, _)
WeightedSum(c, i) ==
    LET m == Len(c) \div 2
    IN  IF i > m THEN 0
        ELSE (IF c[2 * i] = 0 THEN 0 ELSE c[2 * i] * Pow256(m - i))
             + WeightedSum(c, i + 1)

\* C6: on a chain of 0 to 4 EXTENDED_ARG pairs and one closing pair,
\* extended_arguments gives the big-endian value of the operand bytes, the
\* sum of operand_i * 256^(m - i); with no EXTENDED_ARG pair that is the
\* operand byte of the closing pair, and operands 1, 2, 3 give 66051.
C6_BigEndianOperands ==
    (bpc = "value" /\ Len(raw) <= 2 * (MaxExtendedArgs + 1)) =>
        /\ value = WeightedSum(raw, 1)
        /\ (Len(raw) = 2 => value = raw[2])
        /\ (Len(raw) = 6 /\ raw[2] = 1 /\ raw[4] = 2 /\ raw[6] = 3)
              => value = 66051

\* EXTENDED_ARG 1, EXTENDED_ARG 2, LOAD_CONST 3 has been decoded to 66051.
C6_Witness ==
    /\ bpc = "value"
    /\ raw = <<EXTENDED_ARG, 1, EXTENDED_ARG, 2, LOAD_CONST, 3>>
    /\ value = 66051

\* C7: on a concatenation of k chains parse_loads gives k integers, the
\* i-th being extended_arguments of the i-th chain, whatever the operand
\* bytes are, the EXTENDED_ARG opcode byte included.
C7_OneLoadPerChain ==
    bpc = "loads" =>
        /\ Len(loads) = Len(chains)
        /\ \A i \in 1..Len(chains) : loads[i] = extended_arguments(chains[i])

\* Three chains have been parsed, one of them extended, with an operand
\* byte equal to the EXTENDED_ARG opcode in an extension and in a load.
C7_Witness ==
    /\ bpc = "loads"
    /\ Len(chains) = 3
    /\ Len(loads) = 3
    /\ \E i \in 1..3 :
          /\ Len(chains[i]) = 4
          /\ chains[i][2] = EXTENDED_ARG
    /\ \E i \in 1..3 :
          /\ Len(chains[i]) = 2
          /\ chains[i][2] = EXTENDED_ARG

----------------------------------------------------------------------------
(***************************************************************************)
(* Properties of the scan of function_calls.                               *)
(***************************************************************************)

RECURSIVE KeptSpans(_)
KeptSpans(sp) ==
    IF sp = <<>> THEN <<>>
    ELSE IF sp[1].kept THEN <<sp[1]>> \o KeptSpans(Tail(sp))
    ELSE KeptSpans(Tail(sp))
\* The fact that the bytes of one span decode to.
FactOfSpan(sp) == CallOf(MatchCallAt(raw, sp.start), CoNames, CoConsts).fact
SpanEnd == IF spans = <<>> THEN 1 ELSE spans[Len(spans)].end

\* C11: the matches are met left to right and do not overlap: each starts
\* at or after the end of the one before it, no byte lies in two of them,
\* and the search always goes on from the end of the last one; the facts
\* are, in that order, the facts of the matches that were kept, and they
\* are what function_calls returns for the stream.
C11_LeftToRightDisjoint ==
    (bpc \in {"scan", "scanned", "raised"}) =>
        /\ \A i \in 1..Len(spans) :
              /\ spans[i].start < spans[i].end
              /\ i > 1 => spans[i].start >= spans[i - 1].end
        /\ \A b \in 1..Len(raw) :
              Cardinality({i \in 1..Len(spans) :
                              spans[i].start <= b /\ b < spans[i].end}) <= 1
        /\ pos >= SpanEnd
        /\ bpc # "raised" =>
              LET kept == KeptSpans(spans)
              IN  /\ Len(facts.out) = Len(kept)
                  /\ \A k \in 1..Len(kept) : facts.out[k] = FactOfSpan(kept[k])
        /\ bpc = "scanned" => facts = function_calls(raw, CoNames, CoConsts)
        /\ bpc = "raised" => function_calls(raw, CoNames, CoConsts).err

\* Two different facts have been returned, from two kept matches, the
\* second starting where the first ends.
C11_Witness ==
    /\ bpc = "scanned"
    /\ Len(spans) = 2
    /\ Len(facts.out) = 2
    /\ facts.out[1].function = "foo"
    /\ facts.out[2].function = "bar"
    /\ spans[2].start = spans[1].end

\* C12: every match that is turned into a fact starts at an even byte
\* offset of the stream (an odd position, counting from 1), so operand
\* bytes never give a fact.
C12_Original ==
    \A i \in 1..Len(spans) : spans[i].kept => spans[i].start % 2 = 1

\* LOAD_CONST 101, then three instructions of opcode 1 with operands 100,
\* 131 and 0: the operand bytes 101, 100 and 131 are read as bar(2).
C12_OperandsRead ==
    /\ bpc = "scanned"
    /\ raw = <<LOAD_CONST, LOAD_NAME, 1, LOAD_CONST, 1, CALL_FUNCTION, 1, 0>>
    /\ spans = <<[start |-> 2, end |-> 8, kept |-> TRUE]>>
    /\ facts.out = <<[function |-> "bar", args |-> <<2>>]>>

----------------------------------------------------------------------------
(***************************************************************************)
(* Properties of walk_dependency_tree.                                     *)
(***************************************************************************)

\* The least set that holds initial when it is found and, with n, every
\* found and not excluded d listed in n's depends.
RECURSIVE Collect(_)
Collect(S) ==
    LET T == S \cup {d \in installed :
                       /\ ~(excludes # <<>> /\ d \in excludes[1])
                       /\ \E n \in S : d \in depends[n]}
    IN  IF T = S THEN S ELSE Collect(T)
Collected == Collect(IF initial \in installed THEN {initial} ELSE {})

RECURSIVE PowerSum(_, _)
PowerSum(n, k) == IF k = 0 THEN 1 ELSE 1 + n * PowerSum(n, k - 1)
\* Turns of the while loop: a tree of at most NDists levels, every name
\* under at most NDists names.
TurnBound == PowerSum(NDists, NDists - 1)

\* C13: walk_dependency_tree ends within a bounded number of turns of its
\* loop on every dependency graph, cycles and self-dependence included, and
\* the keys of the map it returns are exactly the least set that holds
\* initial (when found) and every found, not excluded dependency of a
\* member; each key maps to its own metadata, and a name that is not found
\* has no entry.
C13_CollectsClosure ==
    /\ cpc # "idle" => csteps <= TurnBound
    /\ cpc = "returned" =>
          /\ DoneKeys(done) = Collected
          /\ Cardinality(DoneKeys(done)) = Len(done)
          /\ DoneKeys(done) \subseteq installed
          /\ \A i \in 1..Len(done) :
                done[i].dic = search_distribution(done[i].name).dic

\* A walk has returned two entries from 1 <-> 2, with a dependency of 1
\* that is not found.
C13_Witness ==
    /\ cpc = "returned"
    /\ initial = 1
    /\ depends[1] = {2, 3}
    /\ depends[2] = {1}
    /\ installed = {1, 2}
    /\ DoneKeys(done) = {1, 2}

====
